---- MODULE Spec2Model ----
(***************************************************************************)
(* Alert relay of telegram-bot/bot.py: the POST /alert handler feeding an *)
(* asyncio.Queue, the single process_queue worker (cooldown check, history *)
(* deque, send_to_telegram with retry and backoff) and the read-only ops   *)
(* endpoints.  One action per run of code between two awaits.              *)
(***************************************************************************)
EXTENDS Integers, Sequences, FiniteSets, TLC

VARIABLES
    alert_queue,        \* asyncio.Queue(): the alerts waiting, oldest first
    cooldown_tracker,   \* dict: alert type -> loop time stored at line 122
    bot_username,       \* global bot_username
    last_successful_message_timestamp,  \* <<>> is None, <<stamp>> otherwise
    alert_history,      \* deque(maxlen=50), index 1 is the left end
    pc,                 \* where the worker task is suspended
    alert,              \* process_queue local: the alert being dispatched
    current_time,       \* process_queue local, read at line 99
    attempt,            \* send_to_telegram local: the loop index
    sleep_until,        \* wake-up time of the pending asyncio.sleep
    now,                \* the clock (loop time and wall clock)
    last_response,      \* the response the last HTTP request was given
    n_requests,         \* HTTP requests received so far
    enqueued,           \* observer: every put, in order
    dequeued,           \* observer: every get, in order
    admitted,           \* observer: history entry of every admitted alert
    last_delivery,      \* observer: alert type -> time of its last 200 reply
    cycle               \* observer: the current or last dispatch cycle
                        \* (arrivals: puts during its awaits, counted to two)

vars == << alert_queue, cooldown_tracker, bot_username,
           last_successful_message_timestamp, alert_history, pc, alert,
           current_time, attempt, sleep_until, now, last_response, n_requests,
            enqueued, dequeued, admitted, last_delivery, cycle >>

(***************************************************************************)
(* Bounds of the model.                                                    *)
(***************************************************************************)
MaxRequests == 2        \* HTTP requests in Spec
MaxTime == 3            \* the clock stops advancing here
MaxHistRequests == 52   \* HTTP requests in SpecHist
MaxHistReads == 1       \* GET /history requests in SpecHist
MaxFifoRequests == 3    \* POST /alert requests in SpecFifo
MaxFaultRequests == 2   \* POST /alert requests in SpecFault
MaxLiveRequests == 2    \* POST /alert requests in SpecLive
MaxStartRequests == 3   \* POST /alert requests in SpecStart

(***************************************************************************)
(* Program constants.                                                      *)
(***************************************************************************)
max_retries == 3
maxlen == 50

(***************************************************************************)
(* Python values.                                                          *)
(***************************************************************************)
None == << >>
EmptyDict == [k \in {} |-> 0]

\* dict.get(key, default)
DictGet(d, key, default) == IF key \in DOMAIN d THEN d[key] ELSE default

\* d[key] = value
DictSet(d, key, value) ==
    [k \in DOMAIN d \cup {key} |-> IF k = key THEN value ELSE d[k]]

Reverse(s) == [i \in 1..Len(s) |-> s[Len(s) + 1 - i]]

FirstN(s, n) == SubSeq(s, 1, IF Len(s) < n THEN Len(s) ELSE n)

Range(s) == { s[i] : i \in DOMAIN s }

(***************************************************************************)
(* A parsed request body.  kind is the JSON type; for an object, has is    *)
(* the set of its keys and message, type, cooldown are the values of the   *)
(* keys it has (cooldown_kind the JSON type of its cooldown); for an array, *)
(* has is the set of its string elements.                                  *)
(* Every alert carries a text of its own, numbered in order of arrival.     *)
(***************************************************************************)
Body(kind, has, message, type, cooldown) ==
    [kind |-> kind, has |-> has, message |-> message, type |-> type,
     cooldown |-> cooldown, cooldown_kind |-> "number"]

\* {"message": ..., "cooldown": "soon"}: a cooldown that is a JSON string
TextCooldown(m) ==
    [Body("object", {"message", "cooldown"}, m, "", 0)
        EXCEPT !.cooldown_kind = "string"]

NoAlert == Body("none", {}, 0, "", 0)

Bodies(m) ==
    { Body("object", {"message"}, m, "", 0),
      Body("object", {"message", "type", "cooldown"}, m, "price", 2),
      Body("object", {"message", "type", "cooldown"}, m, "price", 0),
      Body("object", {}, 0, "", 0),
      Body("array", {"message"}, m, "", 0),
      Body("number", {}, m, "", 0),
      Body("malformed", {}, 0, "", 0) }

HistBodies(m) == { Body("object", {"message", "type"}, m, "price", 0) }

FaultBodies(m) ==
    { Body("object", {"message"}, m, "", 0),
      Body("array", {"message"}, m, "", 0),
      TextCooldown(m) }

LiveBodies(m) ==
    { Body("object", {"message"}, m, "", 0),
      Body("object", {"message", "type", "cooldown"}, m, "price", 2),
      Body("array", {"message"}, m, "", 0) }

FifoBodies(m) ==
    { Body("object", {"message"}, m, "", 0),
      Body("array", {"message"}, m, "", 0) }

\* alert.get(key, default) on a dequeued object
AlertGet(a, key, default) ==
    IF key \in a.has THEN a[key] ELSE default

Message(a) == AlertGet(a, "message", 0)
AlertType(a) == AlertGet(a, "type", "default")
CooldownSec(a) == AlertGet(a, "cooldown", 0)

GetIsoNow == [utc |-> now, suffix |-> "Z"]

(***************************************************************************)
(* Observer records.                                                       *)
(***************************************************************************)
NoCycle ==
    [phase |-> "none", alert |-> NoAlert, at |-> 0, ended_at |-> 0,
     pre_tracker |-> EmptyDict, pre_marker |-> None, pre_history |-> << >>,
     pre_delivery |-> EmptyDict, trace |-> << >>, arrivals |-> 0]

Event(ev, n) == [ev |-> ev, n |-> n]

NoResponse == [route |-> "", status |-> 0, payload |-> << >>]

Response(route, status, payload) ==
    [route |-> route, status |-> status, payload |-> payload]

(***************************************************************************)
(* Module state after import, with the worker task created by init_app    *)
(* and suspended in fetch_bot_username.                                    *)
(***************************************************************************)
Init ==
    /\ alert_queue = << >>
    /\ cooldown_tracker = EmptyDict
    /\ bot_username = "UnknownBot"
    /\ last_successful_message_timestamp = None
    /\ alert_history = << >>
    /\ pc = "fetch"
    /\ alert = NoAlert
    /\ current_time = 0
    /\ attempt = 0
    /\ sleep_until = 0
    /\ now = 0
    /\ last_response = NoResponse
    /\ n_requests = 0
    /\ enqueued = << >>
    /\ dequeued = << >>
    /\ admitted = << >>
    /\ last_delivery = EmptyDict
    /\ cycle = NoCycle

(***************************************************************************)
(* asyncio.Queue: put at the tail, get from the head.                      *)
(***************************************************************************)
QueuePutFront(q, item) == << item >> \o q
QueuePut(q, item) == Append(q, item)
QueueFront(q) == Head(q)
QueueRest(q) == Tail(q)

(***************************************************************************)
(* handle_alert.  The operators below are the tests of lines 133-140 on    *)
(* the parsed body.                                                        *)
(***************************************************************************)
\* request.json() raises on a body that is not JSON
JsonRaises(body) == body.kind = "malformed"

\* `"message" in data` raises TypeError on a value that is no container
InRaises(body) == body.kind \notin {"object", "array"}

\* `"message" in data`
HasMessage(body) == "message" \in body.has

\* data.get(...) at line 140 raises AttributeError on a value that is no dict
GetRaises(body) == body.kind # "object"

\* line 102: float - float < str raises TypeError
CompareRaises(a) == "cooldown" \in a.has /\ a.cooldown_kind # "number"

Enqueues(body) == ~JsonRaises(body) /\ ~InRaises(body) /\ HasMessage(body)

AlertResponse(body) ==
    IF JsonRaises(body) \/ InRaises(body)
    THEN Response("/alert", 400, <<"Invalid JSON payload">>)
    ELSE IF ~HasMessage(body)
    THEN Response("/alert", 400, <<"Missing 'message' field">>)
    ELSE IF GetRaises(body)
    THEN Response("/alert", 400, <<"Invalid JSON payload">>)
    ELSE Response("/alert", 202, <<"queued">>)

HandleAlert(body, limit) ==
    /\ n_requests < limit
    /\ n_requests' = n_requests + 1
    /\ alert_queue' = IF Enqueues(body) THEN QueuePut(alert_queue, body)
                      ELSE alert_queue
    /\ enqueued' = IF Enqueues(body)
                   THEN Append(enqueued, body)
                   ELSE enqueued
    /\ last_response' = AlertResponse(body)
    /\ cycle' = IF Enqueues(body) /\ pc \in {"post", "sleep", "settle"}
                THEN [cycle EXCEPT !.arrivals = IF @ < 2 THEN @ + 1 ELSE @]
                ELSE cycle
    /\ UNCHANGED << cooldown_tracker, bot_username,
                    last_successful_message_timestamp, alert_history, pc,
                    alert, current_time, attempt, sleep_until, now, dequeued,
                    admitted, last_delivery >>

HandleRead(response, limit) ==
    /\ n_requests < limit
    /\ n_requests' = n_requests + 1
    /\ last_response' = response
    /\ UNCHANGED << alert_queue, cooldown_tracker, bot_username,
                    last_successful_message_timestamp, alert_history, pc,
                    alert, current_time, attempt, sleep_until, now, enqueued,
                    dequeued, admitted, last_delivery, cycle >>

HandleHealth(limit) ==
    HandleRead(Response("/health", 200, <<"ok">>), limit)

HandleStatus(limit) ==
    HandleRead(Response("/status", 200,
                        << "online", bot_username,
                           last_successful_message_timestamp, GetIsoNow >>),
               limit)

HandleHistoryPops(limit) ==
    /\ n_requests < limit
    /\ n_requests' = n_requests + 1
    /\ last_response' = Response("/history", 200, alert_history)
    /\ alert_history' = << >>
    /\ UNCHANGED << alert_queue, cooldown_tracker, bot_username,
                    last_successful_message_timestamp, pc, alert,
                    current_time, attempt, sleep_until, now, enqueued,
                    dequeued, admitted, last_delivery, cycle >>

HandleHistory(limit) ==
    HandleRead(Response("/history", 200, alert_history), limit)

(***************************************************************************)
(* process_queue and send_to_telegram.                                     *)
(***************************************************************************)
OnCooldownInclusive(time, last_sent, cooldown_sec) ==
    time - last_sent <= cooldown_sec

\* line 102: current_time - last_sent < cooldown_sec
OnCooldown(time, last_sent, cooldown_sec) == time - last_sent < cooldown_sec

\* line 100: cooldown_tracker.get(alert_type, 0)
LastSent(tracker, alert_type) == DictGet(tracker, alert_type, 0)

\* lines 109-115: the dict appended to the history
HistoryEntry(a) ==
    [timestamp |-> GetIsoNow,
     symbol |-> AlertGet(a, "symbol", ""),
     category |-> AlertType(a),
     severity |-> AlertGet(a, "severity", "info"),
     message |-> Message(a)]

AppendLeftUnbounded(history, entry) == << entry >> \o history

\* deque(maxlen=50).appendleft: the right end falls off a full deque
AppendLeft(history, entry) == FirstN(<<entry>> \o history, maxlen)

\* line 78: the argument of asyncio.sleep
Backoff(n) == 2 ^ n

SleepsAfterEvery(n) == n < max_retries

\* line 77: whether a failed attempt is followed by a sleep
SleepsAfter(n) == n < max_retries - 1

\* line 87 returns: fetch_bot_username has set the name or left it alone
GetMeReplies == {"username", "no_username", "not_ok", "non_200", "raises"}

FetchBotUsernameRaises(reply) ==
    /\ pc = "fetch"
    /\ bot_username' = IF reply = "username" THEN "crypto_bot"
                       ELSE bot_username
    /\ pc' = IF reply = "raises" THEN "stopped" ELSE "get"
    /\ UNCHANGED << alert_queue, cooldown_tracker,
                    last_successful_message_timestamp, alert_history, alert,
                    current_time, attempt, sleep_until, now, last_response,
                    n_requests, enqueued, dequeued, admitted,
                    last_delivery, cycle >>

FetchBotUsername(reply) ==
    /\ pc = "fetch"
    /\ bot_username' = IF reply = "username" THEN "crypto_bot"
                       ELSE bot_username
    /\ pc' = "get"
    /\ UNCHANGED << alert_queue, cooldown_tracker,
                    last_successful_message_timestamp, alert_history, alert,
                    current_time, attempt, sleep_until, now, last_response,
                    n_requests, enqueued, dequeued, admitted,
                    last_delivery, cycle >>

\* The observer's record of a cycle that starts now with alert a.
StartCycle(a, phase, trace) ==
    [phase |-> phase, alert |-> a, at |-> now, ended_at |-> now,
     pre_tracker |-> cooldown_tracker,
     pre_marker |-> last_successful_message_timestamp,
     pre_history |-> alert_history, pre_delivery |-> last_delivery,
     trace |-> trace, arrivals |-> 0]

FaultStops(a) ==
    /\ pc' = "stopped"
    /\ cycle' = StartCycle(a, "fault", << >>)
    /\ UNCHANGED << alert_history, admitted, alert, current_time, attempt >>

\* lines 92-96 raise on an alert that is no dict, line 102 on a cooldown that
\* is no number; line 127 catches it and the loop goes on
Fault(a) ==
    /\ pc' = "get"
    /\ cycle' = StartCycle(a, "fault", << >>)
    /\ UNCHANGED << alert_history, admitted, alert, current_time, attempt >>

DropRecorded(a) ==
    /\ pc' = "get"
    /\ cycle' = StartCycle(a, "dropped", << >>)
    /\ alert_history' = AppendLeft(alert_history, HistoryEntry(a))
    /\ UNCHANGED << admitted, alert, current_time, attempt >>

DropStops(a) ==
    /\ pc' = "stopped"
    /\ cycle' = StartCycle(a, "dropped", << >>)
    /\ UNCHANGED << alert_history, admitted, alert, current_time, attempt >>

\* lines 103-105
Drop(a) ==
    /\ pc' = "get"
    /\ cycle' = StartCycle(a, "dropped", << >>)
    /\ UNCHANGED << alert_history, admitted, alert, current_time, attempt >>

AdmitUnrecorded(a) ==
    /\ admitted' = Append(admitted, HistoryEntry(a))
    /\ alert' = a
    /\ current_time' = now
    /\ attempt' = 0
    /\ pc' = "post"
    /\ cycle' = StartCycle(a, "delivering", << Event("post", 0) >>)
    /\ UNCHANGED alert_history

AdmitInBackground(a) ==
    /\ alert_history' = AppendLeft(alert_history, HistoryEntry(a))
    /\ admitted' = Append(admitted, HistoryEntry(a))
    /\ alert' = a
    /\ current_time' = now
    /\ attempt' = 0
    /\ pc' = "get"
    /\ cycle' = StartCycle(a, "delivering", << Event("post", 0) >>)

\* lines 109-118, up to the first session.post
Admit(a) ==
    /\ alert_history' = AppendLeft(alert_history, HistoryEntry(a))
    /\ admitted' = Append(admitted, HistoryEntry(a))
    /\ alert' = a
    /\ current_time' = now
    /\ attempt' = 0
    /\ pc' = "post"
    /\ cycle' = StartCycle(a, "delivering", << Event("post", 0) >>)

\* lines 91-118: from alert_queue.get() returning to the next await
Dequeue ==
    /\ pc = "get"
    /\ alert_queue # << >>
    /\ alert_queue' = QueueRest(alert_queue)
    /\ dequeued' = Append(dequeued, QueueFront(alert_queue))
    /\ LET a == QueueFront(alert_queue) IN
         IF GetRaises(a) \/ CompareRaises(a) THEN Fault(a)
         ELSE IF OnCooldown(now, LastSent(cooldown_tracker, AlertType(a)),
                            CooldownSec(a))
         THEN Drop(a)
         ELSE Admit(a)
    /\ UNCHANGED << cooldown_tracker, bot_username,
                    last_successful_message_timestamp, sleep_until, now,
                    last_response, n_requests, enqueued, last_delivery >>

EndCycle(phase, ev) ==
    /\ pc' = "get"
    /\ alert' = NoAlert
    /\ current_time' = 0
    /\ attempt' = 0
    /\ cycle' = [cycle EXCEPT !.phase = phase, !.ended_at = now,
                              !.trace = Append(@, Event(ev, attempt))]

\* lines 66-69: status 200; send_to_telegram writes the marker and returns
\* True through the exit of the `async with` of line 65, which is awaited
PostAccepted ==
    /\ pc = "post"
    /\ last_successful_message_timestamp' = << GetIsoNow >>
    /\ last_delivery' = DictSet(last_delivery, AlertType(alert), now)
    /\ pc' = "settle"
    /\ cycle' = [cycle EXCEPT !.trace = Append(@, Event("accepted", attempt))]
    /\ UNCHANGED << alert_queue, cooldown_tracker, bot_username,
                    alert_history, alert, current_time, attempt, sleep_until,
                    now, last_response, n_requests, enqueued, dequeued,
                    admitted >>

\* lines 118-124: send_to_telegram has returned True
Settle ==
    /\ pc = "settle"
    /\ cooldown_tracker' =
           DictSet(cooldown_tracker, AlertType(alert), current_time)
    /\ EndCycle("delivered", "ok")
    /\ UNCHANGED << alert_queue, bot_username,
                    last_successful_message_timestamp, alert_history,
                    sleep_until, now, last_response, n_requests, enqueued,
                    dequeued, admitted, last_delivery >>

PostFailedMarks ==
    /\ pc = "post"
    /\ IF SleepsAfter(attempt)
       THEN /\ pc' = "sleep"
            /\ sleep_until' = now + Backoff(attempt)
            /\ cycle' = [cycle EXCEPT
                           !.trace = @ \o << Event("fail", attempt),
                                             Event("sleep", Backoff(attempt)) >>]
            /\ UNCHANGED << alert, current_time, attempt, cooldown_tracker >>
       ELSE /\ EndCycle("failed", "fail")
            /\ cooldown_tracker' =
                   DictSet(cooldown_tracker, AlertType(alert), current_time)
            /\ UNCHANGED sleep_until
    /\ UNCHANGED << alert_queue, bot_username,
                    last_successful_message_timestamp, alert_history, now,
                    last_response, n_requests, enqueued, dequeued,
                    admitted, last_delivery >>

PostFailedGivesUp ==
    /\ pc = "post"
    /\ EndCycle("failed", "fail")
    /\ UNCHANGED << alert_queue, cooldown_tracker, bot_username,
                    last_successful_message_timestamp, alert_history,
                    sleep_until, now, last_response, n_requests, enqueued,
                    dequeued, admitted, last_delivery >>

\* lines 70-80 and 118-124: another status, or session.post raises
PostFailed ==
    /\ pc = "post"
    /\ IF SleepsAfter(attempt)
       THEN /\ pc' = "sleep"
            /\ sleep_until' = now + Backoff(attempt)
            /\ cycle' = [cycle EXCEPT
                           !.trace = @ \o << Event("fail", attempt),
                                             Event("sleep", Backoff(attempt)) >>]
            /\ UNCHANGED << alert, current_time, attempt >>
       ELSE /\ EndCycle("failed", "fail")
            /\ UNCHANGED sleep_until
    /\ UNCHANGED << alert_queue, cooldown_tracker, bot_username,
                    last_successful_message_timestamp, alert_history, now,
                    last_response, n_requests, enqueued, dequeued,
                    admitted, last_delivery >>

\* line 78 returns; lines 63-65 start the next attempt
Wake ==
    /\ pc = "sleep"
    /\ now >= sleep_until
    /\ attempt' = attempt + 1
    /\ attempt' < max_retries
    /\ pc' = "post"
    /\ sleep_until' = 0
    /\ cycle' = [cycle EXCEPT !.trace = Append(@, Event("post", attempt + 1))]
    /\ UNCHANGED << alert_queue, cooldown_tracker, bot_username,
                    last_successful_message_timestamp, alert_history, alert,
                    current_time, now, last_response, n_requests,
                    enqueued, dequeued, admitted, last_delivery >>

\* lines 125-126: the task is cancelled at the await it is suspended in
Cancelled ==
    /\ pc \in {"fetch", "get", "post", "settle", "sleep"}
    /\ pc' = "stopped"
    /\ UNCHANGED << alert_queue, cooldown_tracker, bot_username,
                    last_successful_message_timestamp, alert_history, alert,
                    current_time, attempt, sleep_until, now, last_response,
                    n_requests, enqueued, dequeued, admitted, last_delivery,
                    cycle >>

\* Time passes while the worker is suspended: on the network, in a sleep that
\* is not yet due, or on the empty queue.
Suspended ==
    \/ pc \in {"fetch", "post"}
    \/ pc = "sleep" /\ now < sleep_until
    \/ pc = "get" /\ alert_queue = << >>

Elapse ==
    /\ now < MaxTime
    /\ Suspended
    /\ now' = now + 1
    /\ UNCHANGED << alert_queue, cooldown_tracker, bot_username,
                    last_successful_message_timestamp, alert_history, pc,
                    alert, current_time, attempt, sleep_until, last_response,
                    n_requests, enqueued, dequeued, admitted,
                    last_delivery, cycle >>

\* line 78: the time of a pending asyncio.sleep passes
SleepElapses ==
    /\ pc = "sleep"
    /\ now < sleep_until
    /\ now' = now + 1
    /\ UNCHANGED << alert_queue, cooldown_tracker, bot_username,
                    last_successful_message_timestamp, alert_history, pc,
                    alert, current_time, attempt, sleep_until, last_response,
                    n_requests, enqueued, dequeued, admitted,
                    last_delivery, cycle >>

Next ==
    \/ \E body \in Bodies(Len(enqueued) + 1) : HandleAlert(body, MaxRequests)
    \/ HandleHealth(MaxRequests)
    \/ HandleStatus(MaxRequests)
    \/ HandleHistory(MaxRequests)
    \/ \E reply \in GetMeReplies : FetchBotUsername(reply)
    \/ Dequeue
    \/ PostAccepted
    \/ Settle
    \/ PostFailed
    \/ Wake
    \/ Cancelled
    \/ Elapse

Spec == Init /\ [][Next]_vars

(***************************************************************************)
(* Scenario D: alerts of one shape, a sink that accepts every message,     *)
(* and GET /history.                                                       *)
(***************************************************************************)
NextHist ==
    \/ \E body \in HistBodies(Len(enqueued) + 1) :
           HandleAlert(body, MaxHistRequests)
    \/ /\ n_requests - Len(enqueued) < MaxHistReads
       /\ HandleHistory(MaxHistRequests)
    \/ FetchBotUsername("username")
    \/ Dequeue
    \/ PostAccepted
    \/ Settle

SpecHist == Init /\ [][NextHist]_vars

(***************************************************************************)
(* The queue between POST /alert and the worker, without the GET          *)
(* endpoints.                                                              *)
(***************************************************************************)
NextFifo ==
    \/ \E body \in FifoBodies(Len(enqueued) + 1) :
           HandleAlert(body, MaxFifoRequests)
    \/ FetchBotUsername("username")
    \/ Dequeue
    \/ PostAccepted
    \/ Settle
    \/ PostFailed
    \/ Wake
    \/ Elapse

SpecFifo == Init /\ [][NextFifo]_vars

(***************************************************************************)
(* Alerts the worker cannot process among alerts it can, a sink that may   *)
(* fail, and cancellation of the worker task.                              *)
(***************************************************************************)
NextFault ==
    \/ \E body \in FaultBodies(Len(enqueued) + 1) :
           HandleAlert(body, MaxFaultRequests)
    \/ FetchBotUsername("username")
    \/ Dequeue
    \/ PostAccepted
    \/ Settle
    \/ PostFailed
    \/ Wake
    \/ Cancelled
    \/ Elapse

SpecFault == Init /\ [][NextFault]_vars

(***************************************************************************)
(* The worker when it is never cancelled: the event loop runs a task that  *)
(* is ready, every request to Telegram is answered, refused or timed out   *)
(* (timeout=10 at lines 42 and 65), and a sleep ends when its time is up.   *)
(***************************************************************************)
NextLive ==
    \/ \E body \in LiveBodies(Len(enqueued) + 1) :
           HandleAlert(body, MaxLiveRequests)
    \/ \E reply \in GetMeReplies : FetchBotUsername(reply)
    \/ Dequeue
    \/ PostAccepted
    \/ Settle
    \/ PostFailed
    \/ Wake
    \/ SleepElapses

Fairness ==
    /\ WF_vars(\E reply \in GetMeReplies : FetchBotUsername(reply))
    /\ WF_vars(Dequeue)
    /\ WF_vars(PostAccepted \/ PostFailed)
    /\ WF_vars(Settle)
    /\ WF_vars(Wake)
    /\ WF_vars(SleepElapses)

SpecLive == Init /\ [][NextLive]_vars /\ Fairness

(***************************************************************************)
(* Startup with a getMe call that does not yield a name, and alerts that   *)
(* arrive while it is pending.                                             *)
(***************************************************************************)
NextStart ==
    \/ /\ pc = "fetch"
       /\ \E body \in FifoBodies(Len(enqueued) + 1) :
              HandleAlert(body, MaxStartRequests)
    \/ \E reply \in GetMeReplies \ {"username"} : FetchBotUsername(reply)
    \/ Dequeue
    \/ PostAccepted
    \/ Settle
    \/ PostFailed
    \/ Wake
    \/ Elapse

SpecStart == Init /\ [][NextStart]_vars

(***************************************************************************)
(* The dispatch cycle the observer holds.                                  *)
(***************************************************************************)
Decided == cycle.phase \in {"dropped", "delivering", "delivered", "failed"}
Dropped == cycle.phase = "dropped"
CycleType == AlertType(cycle.alert)
CycleCooldown == CooldownSec(cycle.alert)
HadEntry == CycleType \in DOMAIN cycle.pre_tracker
HadDelivery == CycleType \in DOMAIN cycle.pre_delivery
Stamp(t) == [utc |-> t, suffix |-> "Z"]
Last(s) == s[Len(s)]
NewestFirst(log) == FirstN(Reverse(log), 50)

\* C1: a dequeued alert is dropped if and only if its category has a
\* cooldown entry and the loop time less that entry is under the alert's
\* cooldown; with no entry it is admitted.
C1_AdmitDecision ==
    Decided =>
        (Dropped <=>
            /\ HadEntry
            /\ cycle.at - cycle.pre_tracker[CycleType] < CycleCooldown)

\* C2: two successful deliveries of one category are at least the later
\* alert's cooldown apart, and an alert dequeued sooner than that after the
\* last successful delivery of its category is dropped.
C2_CooldownSpacing ==
    /\ cycle.phase = "delivered" /\ HadDelivery =>
           cycle.ended_at - cycle.pre_delivery[CycleType] >= CycleCooldown
    /\ Decided /\ HadDelivery
         /\ cycle.at - cycle.pre_delivery[CycleType] < CycleCooldown
         => Dropped

\* C3: after a successful send the category's cooldown entry is the time of
\* that moment and the marker is updated; after a send that failed on all
\* attempts the cooldown map and the marker are as before the alert, and the
\* history has gained exactly the alert's entry.
C3_Settling ==
    /\ cycle.phase = "delivered" =>
           /\ CycleType \in DOMAIN cooldown_tracker
           /\ cooldown_tracker[CycleType] = cycle.ended_at
           /\ last_successful_message_timestamp = << Stamp(cycle.ended_at) >>
    /\ cycle.phase = "failed" =>
           /\ cooldown_tracker = cycle.pre_tracker
           /\ last_successful_message_timestamp = cycle.pre_marker
           /\ Len(alert_history) = Len(cycle.pre_history) + 1
           /\ Tail(alert_history) = cycle.pre_history
           /\ Head(alert_history).message = Message(cycle.alert)

\* C4: an alert whose cooldown is 0, given or omitted, is admitted whatever
\* its category's send history and whatever the time.
C4_ZeroCooldownAdmits == Decided /\ CycleCooldown = 0 => ~Dropped

C4_Witness ==
    /\ cycle.phase = "delivering"
    /\ "cooldown" \in cycle.alert.has
    /\ CycleCooldown = 0
    /\ HadEntry
    /\ cycle.pre_tracker[CycleType] = cycle.at

\* C5: the step that drops a dequeued alert leaves the history as it was,
\* starts no sink call and leaves the worker waiting on the queue.
C5_DropIsSilent ==
    [][ Len(dequeued') > Len(dequeued) /\ cycle'.phase = "dropped" =>
            /\ alert_history' = alert_history
            /\ cycle'.trace = << >>
            /\ pc' = "get" ]_vars

C5_Witness ==
    /\ Dropped
    /\ HadEntry
    /\ alert_history # << >>
    /\ alert_history = cycle.pre_history

\* C6: the history never holds more than 50 entries; it is the 50 most
\* recently admitted alerts, newest first, or all of them while there are
\* fewer; the alert admitted 50 admissions before the newest is gone; and
\* GET /history answers with the history of the moment it is served.
C6_BoundedNewestFirst ==
    /\ Len(alert_history) <= 50
    /\ alert_history = NewestFirst(admitted)
    /\ Len(admitted) > 50 =>
           admitted[Len(admitted) - 50] \notin Range(alert_history)
    /\ last_response.route = "/history" /\ last_response.payload # << >> =>
           \E k \in DOMAIN admitted :
               /\ admitted[k] = Head(last_response.payload)
               /\ last_response.payload = NewestFirst(SubSeq(admitted, 1, k))

C6_Witness ==
    /\ Len(admitted) > 50
    /\ Len(alert_history) = 50
    /\ last_response.route = "/history"
    /\ last_response.payload = alert_history

\* C7: while an admitted alert is being delivered, and after its delivery
\* succeeded or failed on all attempts, its entry is in the history (it was
\* inserted before the first sink call); the history has had as many
\* insertions as alerts were admitted.
C7_AdmissionLog ==
    /\ cycle.phase \in {"delivering", "delivered", "failed"} =>
           /\ alert_history # << >>
           /\ Head(alert_history) = Last(admitted)
           /\ Head(alert_history).message = Message(cycle.alert)
           /\ Head(alert_history).timestamp = Stamp(cycle.at)
    /\ Len(admitted) <= 50 => Len(alert_history) = Len(admitted)

C7_Witness ==
    /\ cycle.phase = "failed"
    /\ Len(admitted) = 2
    /\ Head(alert_history).message = Message(cycle.alert)

(***************************************************************************)
(* The events of one send_to_telegram call, in order.                      *)
(***************************************************************************)
Trace == cycle.trace
At(ev) == { i \in DOMAIN Trace : Trace[i].ev = ev }

\* C8: one send makes at most 3 sink calls and sleeps at most twice; a sleep
\* comes only right after a failed attempt that is not the third, lasts
\* 2^(index of that attempt), so 1 then 2, and is followed by the next
\* attempt; nothing follows a success or the third failure.
C8_RetryBackoff ==
    /\ Cardinality(At("post")) <= 3
    /\ Cardinality(At("sleep")) <= 2
    /\ \A i \in At("sleep") :
           /\ i > 1
           /\ Trace[i - 1].ev = "fail"
           /\ Trace[i - 1].n \in {0, 1}
           /\ Trace[i].n = 2 ^ Trace[i - 1].n
           /\ Trace[i].n = Cardinality({ j \in At("sleep") : j <= i })
           /\ i < Len(Trace) => Trace[i + 1].ev = "post"
    /\ \A i \in At("ok") : i = Len(Trace)
    /\ \A i \in At("fail") : Trace[i].n = 2 => i = Len(Trace)
    /\ pc = "sleep" =>
           /\ Trace # << >>
           /\ Last(Trace).ev = "sleep"
           /\ sleep_until >= cycle.at + Last(Trace).n
           /\ sleep_until - now <= Last(Trace).n

C8_Witness ==
    /\ cycle.phase = "failed"
    /\ Cardinality(At("post")) = 3
    /\ Cardinality(At("sleep")) = 2
    /\ Last(Trace) = Event("fail", 2)

\* C9: the alerts put on the queue are, in the order of their puts, those
\* already dequeued followed by those still waiting; no alert is dequeued
\* twice; the alert being processed is the one dequeued last.
C9_Fifo ==
    /\ enqueued = dequeued \o alert_queue
    /\ \A i, j \in DOMAIN dequeued : dequeued[i] = dequeued[j] => i = j
    /\ dequeued # << >> => cycle.alert = Last(dequeued)

C9_Witness ==
    /\ pc = "sleep"
    /\ Len(dequeued) = 1
    /\ cycle.arrivals = 2
    /\ Len(alert_queue) = 2

\* C10: a POST /alert answered 400 leaves the queue as it was, and one
\* answered 202 has put exactly its alert at the tail of the queue.
C10_IngestionOutcome ==
    [][ n_requests' # n_requests /\ last_response'.route = "/alert" =>
            /\ last_response'.status = 400 => alert_queue' = alert_queue
            /\ last_response'.status = 202 =>
                   /\ Len(alert_queue') = Len(alert_queue) + 1
                   /\ SubSeq(alert_queue', 1, Len(alert_queue)) = alert_queue
                   /\ enqueued' = Append(enqueued, Last(alert_queue')) ]_vars

\* C11: every item in the queue, and every item the worker has taken from
\* it, is a JSON object that carries a message.
C11_ValidatedQueue ==
    \A a \in Range(alert_queue) \cup Range(dequeued) :
        a.kind = "object" /\ "message" \in a.has

\* C12: a step in which processing of the dequeued alert raises (an alert
\* that is no object, a cooldown that is no number) leaves the worker waiting
\* on the queue with its state as it was; a send that failed on all attempts
\* leaves it waiting on the queue too; and a step that stops the worker is
\* no step of a dispatch cycle (it is the cancellation of the task).
C12_WorkerResilience ==
    [][ /\ Len(dequeued') > Len(dequeued) /\ cycle'.phase = "fault" =>
               /\ pc' = "get"
               /\ cooldown_tracker' = cooldown_tracker
               /\ alert_history' = alert_history
               /\ alert_queue' = Tail(alert_queue)
        /\ cycle.phase = "delivering" /\ cycle'.phase = "failed" => pc' = "get"
        /\ pc # "stopped" /\ pc' = "stopped" =>
               /\ dequeued' = dequeued
               /\ cycle' = cycle ]_vars

C12_Witness ==
    /\ Len(dequeued) = 2
    /\ CompareRaises(dequeued[1])
    /\ cycle.alert = dequeued[2]
    /\ cycle.phase = "delivered"
    /\ pc = "get"

\* C13: the worker is never stopped while a sink call is in flight: a step
\* taken during a session.post does not leave the worker stopped.
C13_GracefulShutdown == [][ pc = "post" => pc' # "stopped" ]_vars

\* C14: send returns True exactly when an attempt was answered 200, and
\* then right after that attempt; it returns False exactly when three
\* attempts have failed, none was answered 200, and the worker goes on.
C14_SendResult ==
    /\ \A i \in At("accepted") :
           /\ i > 1
           /\ Trace[i - 1] = Event("post", Trace[i].n)
           /\ i = Len(Trace) => pc \in {"settle", "stopped"}
           /\ i < Len(Trace) =>
                  Trace[i + 1].ev = "ok" /\ i + 1 = Len(Trace)
    /\ \A i \in At("ok") : i > 1 /\ Trace[i - 1].ev = "accepted"
    /\ \A i \in At("fail") : i > 1 /\ Trace[i - 1] = Event("post", Trace[i].n)
    /\ cycle.phase = "delivered" <=> At("ok") # {}
    /\ cycle.phase = "failed" <=> Cardinality(At("fail")) = max_retries
    /\ cycle.phase = "failed" =>
           /\ At("accepted") = {}
           /\ Last(Trace).ev = "fail"
           /\ pc \in {"get", "stopped"}

C14_Witness ==
    /\ cycle.phase = "delivered"
    /\ Cardinality(At("fail")) = 2
    /\ Cardinality(At("post")) = 3
    /\ Last(Trace) = Event("ok", 2)

\* C15: the worker takes an alert from the queue only when it holds none and
\* the cycle of the alert before has ended, one alert per step; and while a
\* send is under way it is the send of the alert dequeued last.
C15_SingleInFlight ==
    [][ /\ Len(dequeued') > Len(dequeued) =>
               /\ Len(dequeued') = Len(dequeued) + 1
               /\ pc = "get"
               /\ alert = NoAlert
               /\ cycle.phase # "delivering"
        /\ pc' \in {"post", "sleep", "settle"} =>
               /\ alert' = Last(dequeued')
               /\ cycle'.alert = alert'
               /\ cycle'.phase = "delivering" ]_vars

C15_Witness ==
    /\ pc = "post"
    /\ Len(dequeued) = 2
    /\ cycle.pre_marker # None
    /\ cycle.arrivals = 1
    /\ alert_queue # << >>

\* C16: until a send has returned the marker is as it was before the alert
\* was dequeued (the send writes no state of the worker), and whenever the
\* marker differs from what it was before the alert, the cooldown entry of
\* the alert's type has been set in this cycle.
C16_MarkerOnlyInSettling ==
    /\ cycle.phase = "delivering" =>
           last_successful_message_timestamp = cycle.pre_marker
    /\ Decided /\ last_successful_message_timestamp # cycle.pre_marker =>
           /\ CycleType \in DOMAIN cooldown_tracker
           /\ cooldown_tracker[CycleType] = cycle.at

\* C17: while an admitted alert is being sent, and after its send failed on
\* all attempts, the cooldown map is what it was before the alert was
\* dequeued; so every waiting alert of its type gets the decision it would
\* get against the map of before.
C17_FailedDoesNotThrottle ==
    /\ cycle.phase \in {"delivering", "failed"} =>
           cooldown_tracker = cycle.pre_tracker
    /\ cycle.phase = "failed" =>
           \A a \in Range(alert_queue) :
               a.kind = "object" /\ AlertType(a) = CycleType =>
                   OnCooldown(now, LastSent(cooldown_tracker, AlertType(a)),
                              CooldownSec(a))
                   = OnCooldown(now, LastSent(cycle.pre_tracker, AlertType(a)),
                                CooldownSec(a))

C17_Witness ==
    /\ cycle.phase = "failed"
    /\ pc = "get"
    /\ alert_queue # << >>
    /\ Head(alert_queue).kind = "object"
    /\ AlertType(Head(alert_queue)) = CycleType
    /\ CooldownSec(Head(alert_queue)) > 0

C19_SingleWriter ==
    [][ n_requests' # n_requests =>
            /\ cooldown_tracker' = cooldown_tracker
            /\ alert_history' = alert_history
            /\ last_successful_message_timestamp'
                   = last_successful_message_timestamp
            /\ bot_username' = bot_username
            /\ << pc, alert, current_time, attempt, sleep_until >>'
                   = << pc, alert, current_time, attempt, sleep_until >>
            /\ last_response'.route # "/alert" => alert_queue' = alert_queue
            /\ last_response'.route = "/alert" =>
                   \/ alert_queue' = alert_queue
                   \/ /\ Len(alert_queue') = Len(alert_queue) + 1
                      /\ SubSeq(alert_queue', 1, Len(alert_queue)) = alert_queue
       ]_vars

C19_Witness ==
    /\ last_response.route = "/history"
    /\ last_response.payload = alert_history
    /\ alert_history # << >>
    /\ last_successful_message_timestamp # None
    /\ cooldown_tracker # EmptyDict
    /\ n_requests = 2

\* C20: the worker is in fetch_bot_username once, at the start, and takes no
\* alert before it has left it; when getMe yields no name the bot's name
\* stays the placeholder, the worker goes on to wait on the queue with the
\* queue as it was, and the alerts put meanwhile are dequeued in the order
\* of their puts.
C20_StartupIdentity ==
    [][ /\ pc' = "fetch" => pc = "fetch"
        /\ pc = "fetch" => dequeued' = << >> /\ cycle' = NoCycle
        /\ pc = "fetch" /\ pc' # "fetch" =>
               /\ pc' = "get"
               /\ alert_queue' = alert_queue
        /\ bot_username' = "UnknownBot"
        /\ enqueued' = dequeued' \o alert_queue' ]_vars

C20_Witness ==
    /\ bot_username = "UnknownBot"
    /\ Len(enqueued) = 3
    /\ Len(dequeued) = 2
    /\ dequeued[1].kind = "object"
    /\ cycle.alert = enqueued[2]
    /\ cycle.phase = "delivered"

====
